---------------------------- MODULE Spec2Model ----------------------------
(***************************************************************************)
(* Model of livestreamer_cli/output.py: the Output lifecycle (open, write, *)
(* close), the three concrete sinks FileOutput, PlayerOutput and           *)
(* MulticastOutput, and the 188-byte packetizer MulticastOutput.iterdata.  *)
(*                                                                         *)
(* Spec     : one caller thread drives one sink through open/write/close.  *)
(* SpecRace : one write() and one close() of an opened MulticastOutput run *)
(*            in two threads, one statement per step.                      *)
(*                                                                         *)
(* Bytes: iterdata only slices and concatenates, it never looks at a byte  *)
(* value, so every byte is labelled by its position in the stream written  *)
(* to the sink (1, 2, 3, ...).  Any loss, duplication or reordering of     *)
(* bytes then shows in the labels.                                         *)
(***************************************************************************)
EXTENDS Integers, Sequences, FiniteSets, TLC

VARIABLES
    kind,       \* which concrete class was constructed: "file", "player", "mcast"
    cfg,        \* the constructor arguments (and the platform flag is_win32)
    opened,     \* self.opened: "absent" (attribute never set), "True", "False"
    calls,      \* number of open/write/close calls made so far
    openCalls,  \* number of open() calls made so far
    lastOp,     \* the call that returned last: "none", "open", "write", "close"
    result,     \* how it returned: "ok" or the exception raised
    events,     \* the external calls made by the last call, in order
    wasOpened,  \* self.opened when the last call began
    closes,     \* close() calls made since open() succeeded
    teardowns,  \* number of times _close() was entered
    handed,     \* destinations that received a write() payload, in order
    fd,         \* FileOutput.fd: "None", "stdout", "other", "file"
    fdCloses,   \* how often each descriptor's close() was called
    player,     \* PlayerOutput.player: "absent" or "proc"
    proc,       \* the child: "none", "running", "exited", "reaped"
    spawns,     \* number of children spawned
    chan,       \* state of namedpipe, http and player.stdin
    devnull,    \* the two os.devnull handles: "none", "open", "closed"
    socket,     \* MulticastOutput.socket: "None" or "sock"
    sock,       \* the OS socket: "none", "created", "joined", "left", "closed"
    remainder,  \* MulticastOutput.remainder
    sent,       \* datagrams passed to socket.sendto, in order
    fed,        \* number of bytes given to iterdata so far
    pcW,        \* SpecRace: position of the writer thread
    pcC,        \* SpecRace: position of the closer thread
    wsock,      \* SpecRace: the writer's local variable socket
    csock,      \* SpecRace: the closer's local variable socket
    wqueue,     \* SpecRace: packets the writer's generator has still to yield
    wrem,       \* SpecRace: remainder the generator stores when it ends
    badSends    \* SpecRace: sendto calls made on a socket under teardown

vars == << kind, cfg, opened, calls, openCalls, lastOp, result, events,
           wasOpened, closes, teardowns, handed, fd, fdCloses, player, proc, spawns, chan,
           devnull, socket, sock, remainder, sent, fed,
           pcW, pcC, wsock, csock, wqueue, wrem, badSends >>

seqVars  == << kind, cfg >>
fileVars == << fd, fdCloses >>
playVars == << player, proc, spawns, chan, devnull >>
mcastVars == << socket, sock, remainder, sent, fed >>
raceVars == << pcW, pcC, wsock, csock, wqueue, wrem, badSends >>

-----------------------------------------------------------------------------
(* Bounds of the model *)

MaxCalls == 5            \* calls made on one sink
MaxFed == 600            \* bytes written to one multicast sink

\* lengths of the data given to one write(): empty, one byte, shorter than a
\* packet, the bytes missing after 24, one byte less than a packet, a packet,
\* one byte more, more than two packets
DataLens == {0, 1, 24, 164, 187, 188, 189, 400}

-----------------------------------------------------------------------------
(* MulticastOutput.iterdata *)

PacketSize == 188

Min(a, b) == IF a < b THEN a ELSE b

\* Python's data[a:b] for 0 <= a <= b
Slice(data, a, b) ==
    IF a >= Len(data) THEN << >> ELSE SubSeq(data, a + 1, Min(b, Len(data)))

\* the bytes of a write() of n bytes after `done` bytes were written
Data(done, n) == [k \in 1..n |-> done + k]

\* IterLoop with the window taken as data[i:]: the slice has no upper end
IterLoopUnbounded(data, i, rem, acc) ==
    IF i > Len(data)
    THEN [packets |-> acc, remainder |-> rem]
    ELSE [packets |-> acc, remainder |-> Slice(data, i, Len(data))]

\* for i in range(offset, len(data)+1, size): ... with self.remainder = rem on
\* entry and acc the packets yielded so far
RECURSIVE IterLoop(_, _, _, _)
IterLoop(data, i, rem, acc) ==
    IF i > Len(data)
    THEN [packets |-> acc, remainder |-> rem]
    ELSE LET packet == Slice(data, i, i + PacketSize)
         IN  IF Len(packet) # PacketSize
             THEN [packets |-> acc, remainder |-> packet]
             ELSE IterLoop(data, i + PacketSize, rem, Append(acc, packet))

\* iterdata without the reset of self.remainder after the first yield
iterdata_NoReset(rem, data) ==
    LET offset == Len(rem)
    IN  IF offset # 0
        THEN IterLoop(data, PacketSize - offset, rem,
                      << rem \o Slice(data, 0, PacketSize - offset) >>)
        ELSE IterLoop(data, 0, rem, << >>)

\* the generator run to its end: the packets it yields and the remainder it
\* leaves in self.remainder
iterdata(rem, data) ==
    LET offset == Len(rem)
    IN  IF offset # 0
        THEN IterLoop(data, PacketSize - offset, << >>,
                      << rem \o Slice(data, 0, PacketSize - offset) >>)
        ELSE IterLoop(data, 0, rem, << >>)


-----------------------------------------------------------------------------
(* Output: the lifecycle shared by the sinks *)

\* write without the test of self.opened
WriteGateUnchecked(o) ==
    IF o = "absent" THEN "AttributeError" ELSE "pass"

\* Output.write, lines 31-32; no concrete class calls Output.__init__, so
\* self.opened does not exist until open() or close() has assigned it
WriteGate(o) ==
    IF o = "absent" THEN "AttributeError"
    ELSE IF o # "True" THEN "IOError"
    ELSE "pass"

\* Output.close, line 25
CloseGate(o) ==
    IF o = "absent" THEN "AttributeError"
    ELSE IF o = "True" THEN "teardown"
    ELSE "skip"

\* Output.open, line 22: reached only when _open() returned
OpenedAfterOpen(o, res) == IF res = "ok" THEN "True" ELSE o

\* Output.close, line 28: reached only when _close() returned (or was skipped)
OpenedAfterClose(o, res) == IF res = "ok" THEN "False" ELSE o

\* what every call leaves behind for the caller
Returned(op, res, evs) ==
    /\ calls' = calls + 1
    /\ lastOp' = op
    /\ result' = res
    /\ events' = evs
    /\ wasOpened' = opened
    /\ closes' = IF op = "close" /\ opened # "absent" THEN closes + 1 ELSE closes

CanCall == calls < MaxCalls

\* open() is called once on a sink (spec.md, lifecycle); write() and close()
\* may be called at any time
CanOpen == CanCall /\ openCalls = 0

-----------------------------------------------------------------------------
(* MulticastOutput *)

\* MulticastOutput._open: create_socket may raise, join_group may raise
Mcast_open(createOk, joinOk) ==
    IF ~createOk
    THEN [res |-> "OpenError", evs |-> << "create_socket" >>,
          socket |-> socket, sock |-> sock]
    ELSE IF ~joinOk
    THEN [res |-> "OpenError", evs |-> << "create_socket", "join_group" >>,
          socket |-> "sock", sock |-> "created"]
    ELSE [res |-> "ok", evs |-> << "create_socket", "join_group" >>,
          socket |-> "sock", sock |-> "joined"]

McastOpen ==
    /\ kind = "mcast"
    /\ CanOpen
    /\ \E createOk \in BOOLEAN, joinOk \in BOOLEAN :
          LET o == Mcast_open(createOk, joinOk)
          IN  /\ socket' = o.socket
              /\ sock' = o.sock
              /\ opened' = OpenedAfterOpen(opened, o.res)
              /\ Returned("open", o.res, o.evs)
    /\ openCalls' = openCalls + 1
    /\ UNCHANGED << seqVars, teardowns, handed, fileVars, playVars,
                    remainder, sent, fed, raceVars >>

\* MulticastOutput._write: every packet of iterdata(data) goes to
\* socket.sendto; with self.socket None the first sendto raises and the
\* generator is dropped where it stands, before it has assigned self.remainder
Mcast_write(data) ==
    LET it == iterdata(remainder, data)
    IN  IF socket = "None" /\ it.packets # << >>
        THEN [res |-> "AttributeError", sent |-> sent, remainder |-> remainder]
        ELSE [res |-> "ok", sent |-> sent \o it.packets,
              remainder |-> it.remainder]

McastWrite ==
    /\ kind = "mcast"
    /\ CanCall
    /\ \E n \in DataLens :
          /\ fed + n <= MaxFed
          /\ IF WriteGate(opened) # "pass"
             THEN /\ Returned("write", WriteGate(opened), << >>)
                  /\ UNCHANGED << remainder, sent, fed >>
             ELSE LET o == Mcast_write(Data(fed, n))
                  IN  /\ remainder' = o.remainder
                      /\ sent' = o.sent
                      /\ fed' = fed + n
                      /\ Returned("write", o.res,
                                  [k \in 1..(Len(o.sent) - Len(sent)) |-> "sendto"])
    /\ UNCHANGED << seqVars, opened, openCalls, teardowns, handed, fileVars,
                    playVars, socket, sock, raceVars >>

\* MulticastOutput._close: detach the socket, leave the group (an exception is
\* swallowed), close the socket
Mcast_close(leaveOk) ==
    IF socket = "None"
    THEN [evs |-> << >>, socket |-> socket, sock |-> sock]
    ELSE [evs |-> << IF leaveOk THEN "leave_group" ELSE "leave_group_raised",
                     "socket_close" >>,
          socket |-> "None", sock |-> "closed"]

McastClose ==
    /\ kind = "mcast"
    /\ CanCall
    /\ \E leaveOk \in BOOLEAN :
          IF CloseGate(opened) = "teardown"
          THEN LET o == Mcast_close(leaveOk)
               IN  /\ socket' = o.socket
                   /\ sock' = o.sock
                   /\ teardowns' = teardowns + 1
                   /\ opened' = OpenedAfterClose(opened, "ok")
                   /\ Returned("close", "ok", o.evs)
          ELSE /\ UNCHANGED << socket, sock, teardowns >>
               /\ IF CloseGate(opened) = "skip"
                  THEN /\ opened' = OpenedAfterClose(opened, "ok")
                       /\ Returned("close", "ok", << >>)
                  ELSE /\ opened' = opened
                       /\ Returned("close", CloseGate(opened), << >>)
    /\ UNCHANGED << seqVars, openCalls, handed, fileVars, playVars,
                    remainder, sent, fed, raceVars >>

-----------------------------------------------------------------------------
(* FileOutput *)

\* FileOutput._open: open(filename, "wb") may raise; on win32 the descriptor
\* is put in binary mode, which needs self.fd to be a file object
File_open(openOk) ==
    LET fd1  == IF cfg.filename /\ openOk THEN "file" ELSE fd
        evs1 == IF cfg.filename THEN << "open_file" >> ELSE << >>
    IN  IF cfg.filename /\ ~openOk
        THEN [res |-> "OpenError", evs |-> evs1, fd |-> fd]
        ELSE IF cfg.win32 /\ fd1 = "None"
        THEN [res |-> "AttributeError", evs |-> evs1, fd |-> fd1]
        ELSE [res |-> "ok",
              evs |-> IF cfg.win32 THEN Append(evs1, "setmode") ELSE evs1,
              fd |-> fd1]

FileOpen ==
    /\ kind = "file"
    /\ CanOpen
    /\ \E openOk \in BOOLEAN :
          LET o == File_open(openOk)
          IN  /\ fd' = o.fd
              /\ opened' = OpenedAfterOpen(opened, o.res)
              /\ Returned("open", o.res, o.evs)
    /\ openCalls' = openCalls + 1
    /\ UNCHANGED << seqVars, teardowns, handed, fdCloses, playVars,
                    mcastVars, raceVars >>

\* FileOutput._write: self.fd.write(data)
File_write ==
    IF fd = "None"
    THEN [res |-> "AttributeError", handed |-> handed]
    ELSE [res |-> "ok", handed |-> Append(handed, [to |-> fd, st |-> "open"])]

FileWrite ==
    /\ kind = "file"
    /\ CanCall
    /\ IF WriteGate(opened) # "pass"
       THEN /\ Returned("write", WriteGate(opened), << >>)
            /\ UNCHANGED handed
       ELSE /\ handed' = File_write.handed
            /\ Returned("write", File_write.res, << >>)
    /\ UNCHANGED << seqVars, opened, openCalls, teardowns, fileVars,
                    playVars, mcastVars, raceVars >>

\* _close without the test for stdout
File_closeAlways(closeOk) ==
    IF fd = "None"
    THEN [res |-> "AttributeError", evs |-> << >>, fdCloses |-> fdCloses]
    ELSE [res |-> IF closeOk THEN "ok" ELSE "CloseError",
          evs |-> << "fd_close" >>,
          fdCloses |-> [fdCloses EXCEPT ![fd] = @ + 1]]

\* FileOutput._close: every descriptor but stdout is closed; the close of a
\* file object may raise (the flush it does can fail)
File_close(closeOk) ==
    IF fd = "stdout"
    THEN [res |-> "ok", evs |-> << >>, fdCloses |-> fdCloses]
    ELSE IF fd = "None"
    THEN [res |-> "AttributeError", evs |-> << >>, fdCloses |-> fdCloses]
    ELSE [res |-> IF closeOk THEN "ok" ELSE "CloseError",
          evs |-> << "fd_close" >>,
          fdCloses |-> [fdCloses EXCEPT ![fd] = @ + 1]]

FileClose ==
    /\ kind = "file"
    /\ CanCall
    /\ \E closeOk \in BOOLEAN :
          IF CloseGate(opened) = "teardown"
          THEN LET o == File_close(closeOk)
               IN  /\ fdCloses' = o.fdCloses
                   /\ teardowns' = teardowns + 1
                   /\ opened' = OpenedAfterClose(opened, o.res)
                   /\ Returned("close", o.res, o.evs)
          ELSE /\ UNCHANGED << fdCloses, teardowns >>
               /\ IF CloseGate(opened) = "skip"
                  THEN /\ opened' = OpenedAfterClose(opened, "ok")
                       /\ Returned("close", "ok", << >>)
                  ELSE /\ opened' = opened
                       /\ Returned("close", CloseGate(opened), << >>)
    /\ UNCHANGED << seqVars, openCalls, handed, fd, playVars, mcastVars,
                    raceVars >>

-----------------------------------------------------------------------------
(* PlayerOutput *)

\* PlayerOutput.__init__, lines 80-83: the child's stdin is a fresh pipe only
\* when no named pipe, file name or HTTP server was given
Player_stdin ==
    IF cfg.namedpipe \/ cfg.filename \/ cfg.http THEN "inherited" ELSE "PIPE"

\* running without the look at returncode
RunningUnchecked(polled) == TRUE

\* PlayerOutput.running: sleep(0.5), poll(), returncode is None; `polled` is
\* what the one poll finds
Running(polled) == polled = "running"

\* PlayerOutput._open_call: subprocess.call spawns the child and waits for it
Player_open_call(spawnOk) ==
    IF ~spawnOk
    THEN [res |-> "OpenError", evs |-> << "call" >>, player |-> player,
          proc |-> proc, spawns |-> spawns, chan |-> chan]
    ELSE [res |-> "ok", evs |-> << "call" >>, player |-> player,
          proc |-> "reaped", spawns |-> spawns + 1, chan |-> chan]

\* _open_subprocess with the named pipe or the HTTP server opened right after
\* Popen, before the liveness check
Player_open_subprocess_ChannelFirst(spawnOk, polled, chanOk) ==
    IF ~spawnOk
    THEN [res |-> "OpenError", evs |-> << "Popen" >>, player |-> player,
          proc |-> proc, spawns |-> spawns, chan |-> chan]
    ELSE
      LET chan1 == [chan EXCEPT
                       !.stdin = IF Player_stdin = "PIPE" THEN "open" ELSE "none"]
          which == IF cfg.namedpipe THEN "namedpipe"
                   ELSE IF cfg.http THEN "http" ELSE "none"
          chan2 == IF which = "none" \/ ~chanOk THEN chan1
                   ELSE [chan1 EXCEPT ![which] = "open"]
          evs1  == IF which = "namedpipe" THEN << "Popen", "namedpipe_open" >>
                   ELSE IF which = "http" THEN << "Popen", "http_open" >>
                   ELSE << "Popen" >>
      IN  IF which # "none" /\ ~chanOk
          THEN [res |-> "ChannelOpenError", evs |-> evs1, player |-> "proc",
                proc |-> "running", spawns |-> spawns + 1, chan |-> chan2]
          ELSE [res |-> IF Running(polled) THEN "ok" ELSE "PrematureExit",
                evs |-> evs1 \o << "sleep", "poll" >>, player |-> "proc",
                proc |-> polled, spawns |-> spawns + 1, chan |-> chan2]

\* PlayerOutput._open_subprocess: Popen (may raise), the liveness check, then
\* the open of the named pipe or of the HTTP server (may raise)
Player_open_subprocess(spawnOk, polled, chanOk) ==
    IF ~spawnOk
    THEN [res |-> "OpenError", evs |-> << "Popen" >>, player |-> player,
          proc |-> proc, spawns |-> spawns, chan |-> chan]
    ELSE
      LET chan1 == [chan EXCEPT
                       !.stdin = IF Player_stdin = "PIPE" THEN "open" ELSE "none"]
          evs1  == << "Popen", "sleep", "poll" >>
          base  == [res |-> "ok", evs |-> evs1, player |-> "proc",
                    proc |-> polled, spawns |-> spawns + 1, chan |-> chan1]
      IN  IF ~Running(polled)
          THEN [base EXCEPT !.res = "PrematureExit"]
          ELSE IF cfg.namedpipe
          THEN [base EXCEPT
                   !.res = IF chanOk THEN "ok" ELSE "ChannelOpenError",
                   !.evs = Append(evs1, "namedpipe_open"),
                   !.chan = [chan1 EXCEPT
                                !.namedpipe = IF chanOk THEN "open" ELSE @]]
          ELSE IF cfg.http
          THEN [base EXCEPT
                   !.res = IF chanOk THEN "ok" ELSE "ChannelOpenError",
                   !.evs = Append(evs1, "http_open"),
                   !.chan = [chan1 EXCEPT
                                !.http = IF chanOk THEN "open" ELSE @]]
          ELSE base

\* _open with the devnull handles closed after the launch instead of in a
\* finally clause: they stay open when the launch raises
Player_open_NoFinally(spawnOk, polled, chanOk) ==
    LET o == IF cfg.call /\ cfg.filename
             THEN Player_open_call(spawnOk)
             ELSE Player_open_subprocess(spawnOk, polled, chanOk)
        closing == cfg.quiet /\ o.res = "ok"
    IN  [res |-> o.res,
         evs |-> IF closing THEN Append(o.evs, "devnull_close") ELSE o.evs,
         player |-> o.player, proc |-> o.proc, spawns |-> o.spawns,
         chan |-> o.chan,
         devnull |-> IF closing THEN "closed" ELSE devnull]

\* PlayerOutput._open: one of the two launch modes, and in the finally clause
\* the close of the two devnull handles when quiet is set
Player_open(spawnOk, polled, chanOk) ==
    LET o == IF cfg.call /\ cfg.filename
             THEN Player_open_call(spawnOk)
             ELSE Player_open_subprocess(spawnOk, polled, chanOk)
    IN  [res |-> o.res,
         evs |-> IF cfg.quiet THEN Append(o.evs, "devnull_close") ELSE o.evs,
         player |-> o.player, proc |-> o.proc, spawns |-> o.spawns,
         chan |-> o.chan,
         devnull |-> IF cfg.quiet THEN "closed" ELSE devnull]

PlayerOpen ==
    /\ kind = "player"
    /\ CanOpen
    /\ \E spawnOk \in BOOLEAN, polled \in {"running", "exited"},
          chanOk \in BOOLEAN :
          LET o == Player_open(spawnOk, polled, chanOk)
          IN  /\ player' = o.player
              /\ proc' = o.proc
              /\ spawns' = o.spawns
              /\ chan' = o.chan
              /\ devnull' = o.devnull
              /\ opened' = OpenedAfterOpen(opened, o.res)
              /\ Returned("open", o.res, o.evs)
    /\ openCalls' = openCalls + 1
    /\ UNCHANGED << seqVars, teardowns, handed, fileVars, mcastVars, raceVars >>

\* _write with the HTTP server tried before the named pipe
Player_write_HttpFirst ==
    IF cfg.http
    THEN [res |-> "ok",
          handed |-> Append(handed, [to |-> "http", st |-> chan.http])]
    ELSE IF cfg.namedpipe
    THEN [res |-> "ok",
          handed |-> Append(handed, [to |-> "namedpipe", st |-> chan.namedpipe])]
    ELSE IF player = "absent" \/ chan.stdin = "none"
    THEN [res |-> "AttributeError", handed |-> handed]
    ELSE [res |-> "ok",
          handed |-> Append(handed, [to |-> "stdin", st |-> chan.stdin])]

\* PlayerOutput._write: the named pipe, else the HTTP server, else
\* self.player.stdin
Player_write ==
    IF cfg.namedpipe
    THEN [res |-> "ok",
          handed |-> Append(handed, [to |-> "namedpipe", st |-> chan.namedpipe])]
    ELSE IF cfg.http
    THEN [res |-> "ok",
          handed |-> Append(handed, [to |-> "http", st |-> chan.http])]
    ELSE IF player = "absent" \/ chan.stdin = "none"
    THEN [res |-> "AttributeError", handed |-> handed]
    ELSE [res |-> "ok",
          handed |-> Append(handed, [to |-> "stdin", st |-> chan.stdin])]

PlayerWrite ==
    /\ kind = "player"
    /\ CanCall
    /\ IF WriteGate(opened) # "pass"
       THEN /\ Returned("write", WriteGate(opened), << >>)
            /\ UNCHANGED handed
       ELSE /\ handed' = Player_write.handed
            /\ Returned("write", Player_write.res, << >>)
    /\ UNCHANGED << seqVars, opened, openCalls, teardowns, fileVars,
                    playVars, mcastVars, raceVars >>

\* PlayerOutput._close, lines 155-160: close the input of the player; the
\* close of the named pipe or of the HTTP server may raise
Player_close_input(closeOk) ==
    IF cfg.namedpipe
    THEN [res |-> IF closeOk THEN "ok" ELSE "CloseError",
          evs |-> << "namedpipe_close" >>,
          chan |-> [chan EXCEPT !.namedpipe = "closed"]]
    ELSE IF cfg.http
    THEN [res |-> IF closeOk THEN "ok" ELSE "CloseError",
          evs |-> << "http_close" >>,
          chan |-> [chan EXCEPT !.http = "closed"]]
    ELSE IF ~cfg.filename
    THEN IF player = "absent" \/ chan.stdin = "none"
         THEN [res |-> "AttributeError", evs |-> << >>, chan |-> chan]
         ELSE [res |-> "ok", evs |-> << "stdin_close" >>,
               chan |-> [chan EXCEPT !.stdin = "closed"]]
    ELSE [res |-> "ok", evs |-> << >>, chan |-> chan]

\* PlayerOutput._close, lines 162-165: kill under ignored(Exception), then
\* wait; without self.player the kill raises inside ignored() and the wait
\* raises AttributeError
Player_close(closeOk) ==
    LET i == Player_close_input(closeOk)
    IN  IF i.res # "ok"
        THEN [res |-> i.res, evs |-> i.evs, chan |-> i.chan, proc |-> proc]
        ELSE IF player = "absent"
        THEN [res |-> "AttributeError", evs |-> i.evs, chan |-> i.chan,
              proc |-> proc]
        ELSE [res |-> "ok",
              evs |-> i.evs \o (IF cfg.kill THEN << "kill" >> ELSE << >>)
                            \o << "wait" >>,
              chan |-> i.chan, proc |-> "reaped"]

PlayerClose ==
    /\ kind = "player"
    /\ CanCall
    /\ \E closeOk \in BOOLEAN :
          IF CloseGate(opened) = "teardown"
          THEN LET o == Player_close(closeOk)
               IN  /\ chan' = o.chan
                   /\ proc' = o.proc
                   /\ teardowns' = teardowns + 1
                   /\ opened' = OpenedAfterClose(opened, o.res)
                   /\ Returned("close", o.res, o.evs)
          ELSE /\ UNCHANGED << chan, proc, teardowns >>
               /\ IF CloseGate(opened) = "skip"
                  THEN /\ opened' = OpenedAfterClose(opened, "ok")
                       /\ Returned("close", "ok", << >>)
                  ELSE /\ opened' = opened
                       /\ Returned("close", CloseGate(opened), << >>)
    /\ UNCHANGED << seqVars, openCalls, handed, fileVars, player, spawns,
                    devnull, mcastVars, raceVars >>

-----------------------------------------------------------------------------
(* The sequential specification *)

NoConfig == [filename |-> FALSE, fd |-> "None", win32 |-> FALSE,
             namedpipe |-> FALSE, http |-> FALSE, kill |-> FALSE,
             call |-> FALSE, quiet |-> FALSE]

\* FileOutput(filename, fd) on either platform, with a file name, a
\* descriptor (stdout or another one) or both
FileConfigs ==
    { c \in { [NoConfig EXCEPT !.filename = f, !.fd = d, !.win32 = w] :
                f \in BOOLEAN, d \in {"None", "stdout", "other"},
                w \in BOOLEAN } :
         c.filename \/ c.fd # "None" }

\* PlayerOutput(cmd, filename, quiet, kill, call, http, namedpipe)
PlayerConfigs ==
    { [NoConfig EXCEPT !.filename = f, !.namedpipe = n, !.http = h,
                       !.kill = k, !.call = c, !.quiet = q] :
         f \in BOOLEAN, n \in BOOLEAN, h \in BOOLEAN, k \in BOOLEAN,
         c \in BOOLEAN, q \in BOOLEAN }

\* no thread of SpecRace runs
RaceIdle ==
    /\ pcW = "idle"
    /\ pcC = "idle"
    /\ wsock = "None"
    /\ csock = "None"
    /\ wqueue = << >>
    /\ wrem = << >>
    /\ badSends = 0

\* the state a constructor leaves: no __init__ of a concrete class calls
\* Output.__init__, so self.opened is not set
Constructed ==
    /\ opened = "absent"
    /\ calls = 0
    /\ openCalls = 0
    /\ lastOp = "none"
    /\ result = "none"
    /\ events = << >>
    /\ wasOpened = "absent"
    /\ closes = 0
    /\ teardowns = 0
    /\ handed = << >>
    /\ fd = cfg.fd
    /\ fdCloses = [d \in {"stdout", "other", "file"} |-> 0]
    /\ player = "absent"
    /\ proc = "none"
    /\ spawns = 0
    /\ chan = [namedpipe |-> "idle", http |-> "idle", stdin |-> "none"]
    /\ devnull = IF kind = "player" /\ cfg.quiet THEN "open" ELSE "none"
    /\ socket = "None"
    /\ sock = "none"
    /\ remainder = << >>
    /\ sent = << >>
    /\ fed = 0

Init ==
    /\ \/ kind = "file" /\ cfg \in FileConfigs
       \/ kind = "player" /\ cfg \in PlayerConfigs
       \/ kind = "mcast" /\ cfg = NoConfig
    /\ Constructed
    /\ RaceIdle

Next ==
    \/ FileOpen
    \/ FileWrite
    \/ FileClose
    \/ PlayerOpen
    \/ PlayerWrite
    \/ PlayerClose
    \/ McastOpen
    \/ McastWrite
    \/ McastClose

Spec == Init /\ [][Next]_vars

-----------------------------------------------------------------------------
(* Properties of the packetizer, checked on the multicast sink under Spec *)

\* the bytes given to iterdata so far, in order
Stream == Data(0, fed)

RECURSIVE Cat(_)
Cat(packets) ==
    IF packets = << >> THEN << >> ELSE Head(packets) \o Cat(Tail(packets))

\* length of the longest prefix of Stream that is a multiple of PacketSize
WholeLen == (fed \div PacketSize) * PacketSize

\* C1: after any sequence of completed writes with concatenated input S, the
\* packets emitted so far concatenate to the longest prefix of S whose length
\* is a multiple of 188, and the rest of S is the stored remainder
C1_Reassembly ==
    kind = "mcast" =>
        /\ Cat(sent) = SubSeq(Stream, 1, WholeLen)
        /\ remainder = SubSeq(Stream, WholeLen + 1, fed)

\* C2: every packet emitted, so every datagram handed to sendto, is exactly
\* 188 bytes long
C2_PacketsExact ==
    \A i \in 1..Len(sent) : Len(sent[i]) = PacketSize

\* C3: between calls the remainder is shorter than one packet (0..187 bytes)
C3_RemainderShort ==
    Len(remainder) \in 0..(PacketSize - 1)

\* a write that sent packets and left the longest remainder there can be
C3_Witness ==
    /\ lastOp = "write"
    /\ result = "ok"
    /\ "sendto" \in { events[k] : k \in 1..Len(events) }
    /\ Len(remainder) = PacketSize - 1

-----------------------------------------------------------------------------
(* Properties of the lifecycle, checked under Spec *)

\* C4: the first call on a freshly constructed sink being write(), it fails
\* with the not-opened IOError and hands no data to the destination
C4_UnopenedWriteFails ==
    (lastOp = "write" /\ calls = 1) =>
        /\ result = "IOError"
        /\ handed = << >>
        /\ sent = << >>

\* C5: once a sink was opened, teardown (_close) runs at most once over two
\* close() calls and the second close() does not raise
C5_IdempotentClose ==
    (lastOp = "close" /\ closes = 2) =>
        /\ teardowns <= 1
        /\ result = "ok"

\* C6: after a close() called on an opened sink, the opened flag is false,
\* whether or not teardown raised
C6_ClosedAfterClose ==
    (lastOp = "close" /\ wasOpened = "True") => opened = "False"

\* an open() of a player sink in async spawn mode has returned
AsyncOpenReturned ==
    /\ kind = "player"
    /\ lastOp = "open"
    /\ ~(cfg.call /\ cfg.filename)

Count(evs, e) == Cardinality({ k \in 1..Len(evs) : evs[k] = e })

\* the single liveness poll of that open() was taken
Polled == Count(events, "poll") = 1

\* C7 as claimed: a child found exited by the poll makes open() fail with the
\* premature-exit error and leaves the sink not opened; a child found running
\* makes open() succeed and the sink opened; one spawn per open()
C7_PrematureExit_Claimed ==
    AsyncOpenReturned =>
        /\ Count(events, "Popen") = 1
        /\ spawns <= 1
        /\ (Polled /\ proc = "exited") =>
              (result = "PrematureExit" /\ opened = wasOpened /\ opened # "True")
        /\ (Polled /\ proc = "running") =>
              (result = "ok" /\ opened = "True")

\* C7 as amended: a child found running makes open() succeed unless the open
\* of the named pipe or of the HTTP server raises, which open() passes on
C7_PrematureExit ==
    AsyncOpenReturned =>
        /\ Count(events, "Popen") = 1
        /\ spawns <= 1
        /\ (Polled /\ proc = "exited") =>
              (result = "PrematureExit" /\ opened = wasOpened /\ opened # "True")
        /\ (Polled /\ proc = "running") =>
              \/ result = "ok" /\ opened = "True"
              \/ /\ result = "ChannelOpenError"
                 /\ cfg.namedpipe \/ cfg.http
                 /\ opened = wasOpened /\ opened # "True"

\* an async open() whose poll found the child gone
C7_Witness ==
    /\ AsyncOpenReturned
    /\ Polled
    /\ proc = "exited"
    /\ result = "PrematureExit"

\* the close of the input channel that comes first: the named pipe, else the
\* HTTP sink, else the child's stdin pipe (a child reading a file by name
\* has no input channel of the sink's)
InputCloseEvents ==
    IF cfg.namedpipe THEN << "namedpipe_close" >>
    ELSE IF cfg.http THEN << "http_close" >>
    ELSE IF ~cfg.filename THEN << "stdin_close" >>
    ELSE << >>

\* C8: every close() of an opened player sink closes the input channel, then
\* kills the child if and only if kill is set, then waits for it; the wait
\* happens in every such close
C8_CloseSequence ==
    (kind = "player" /\ lastOp = "close" /\ wasOpened = "True") =>
        events = InputCloseEvents
                    \o (IF cfg.kill THEN << "kill" >> ELSE << >>)
                    \o << "wait" >>

\* C10: between calls a multicast sink holds a socket only while it is opened
C10_SocketOnlyWhileOpened ==
    (kind = "mcast" /\ socket # "None") => opened = "True"

-----------------------------------------------------------------------------
(* SpecRace: write() and close() of an opened MulticastOutput in two threads *)

\* remainders the sink may hold when the two calls begin
RaceRemainders == {0, 24, 187}

\* the sink after open() succeeded and one write() of r bytes, r < 188
RaceInit ==
    /\ kind = "mcast"
    /\ cfg = NoConfig
    /\ \E r \in RaceRemainders :
          /\ remainder = Data(0, r)
          /\ fed = r
          /\ calls = IF r = 0 THEN 1 ELSE 2
          /\ lastOp = IF r = 0 THEN "open" ELSE "write"
          /\ events = IF r = 0 THEN << "create_socket", "join_group" >> ELSE << >>
          /\ wasOpened = IF r = 0 THEN "absent" ELSE "True"
    /\ opened = "True"
    /\ openCalls = 1
    /\ result = "ok"
    /\ closes = 0
    /\ teardowns = 0
    /\ handed = << >>
    /\ fd = "None"
    /\ fdCloses = [d \in {"stdout", "other", "file"} |-> 0]
    /\ player = "absent"
    /\ proc = "none"
    /\ spawns = 0
    /\ chan = [namedpipe |-> "idle", http |-> "idle", stdin |-> "none"]
    /\ devnull = "none"
    /\ socket = "sock"
    /\ sock = "joined"
    /\ sent = << >>
    /\ RaceIdle

raceRest == << seqVars, openCalls, handed, fileVars, playVars >>
noReturn == << calls, lastOp, result, events, wasOpened, closes >>

\* Output.write, lines 31-32, for a write(data) of n bytes; the generator of
\* line 238 is the only code that touches self.remainder, so what it will
\* yield is fixed here
WCheck ==
    /\ pcW = "idle"
    /\ \E n \in DataLens :
          IF WriteGate(opened) # "pass"
          THEN /\ pcW' = "done"
               /\ Returned("write", WriteGate(opened), << >>)
               /\ UNCHANGED << wqueue, wrem, fed >>
          ELSE /\ pcW' = "load"
               /\ wqueue' = iterdata(remainder, Data(fed, n)).packets
               /\ wrem' = iterdata(remainder, Data(fed, n)).remainder
               /\ fed' = fed + n
               /\ UNCHANGED noReturn
    /\ UNCHANGED << raceRest, opened, teardowns, socket, sock, remainder,
                    sent, pcC, wsock, csock, badSends >>

\* MulticastOutput._write, line 236: socket = self.socket
WLoad ==
    /\ pcW = "load"
    /\ wsock' = socket
    /\ pcW' = "send"
    /\ UNCHANGED << raceRest, noReturn, opened, teardowns, socket, sock,
                    remainder, sent, fed, pcC, csock, wqueue, wrem, badSends >>

\* MulticastOutput._write, lines 238-239: the generator yields its next
\* packet and socket.sendto is called with it.  On None the call raises
\* AttributeError, on a closed socket it raises socket.error; the write ends
\* there and the generator never runs on.  After a sendto that returned the
\* generator is resumed, which (line 226) leaves self.remainder empty until
\* the loop stores the next one
WSend ==
    /\ pcW = "send"
    /\ wqueue # << >>
    /\ IF wsock = "None"
       THEN /\ pcW' = "done"
            /\ Returned("write", "AttributeError", events)
            /\ UNCHANGED << sent, badSends, wqueue, remainder >>
       ELSE IF sock = "closed"
       THEN /\ pcW' = "done"
            /\ badSends' = badSends + 1
            /\ Returned("write", "SocketError", Append(events, "sendto"))
            /\ UNCHANGED << sent, wqueue, remainder >>
       ELSE /\ sent' = Append(sent, Head(wqueue))
            /\ wqueue' = Tail(wqueue)
            /\ remainder' = << >>
            /\ badSends' = IF sock = "left" THEN badSends + 1 ELSE badSends
            /\ pcW' = "send"
            /\ UNCHANGED noReturn
    /\ UNCHANGED << raceRest, opened, teardowns, socket, sock, fed,
                    pcC, wsock, csock, wrem >>

\* the generator runs to its end and leaves self.remainder; _write returns
WFinish ==
    /\ pcW = "send"
    /\ wqueue = << >>
    /\ remainder' = wrem
    /\ pcW' = "done"
    /\ Returned("write", "ok", << >>)
    /\ UNCHANGED << raceRest, opened, teardowns, socket, sock, sent, fed,
                    pcC, wsock, csock, wqueue, wrem, badSends >>

\* Output.close, line 25
CCheck ==
    /\ pcC = "idle"
    /\ IF CloseGate(opened) = "teardown"
       THEN /\ pcC' = "test"
            /\ teardowns' = teardowns + 1
       ELSE /\ pcC' = "flag"
            /\ UNCHANGED teardowns
    /\ UNCHANGED << raceRest, noReturn, opened, mcastVars, pcW, wsock, csock,
                    wqueue, wrem, badSends >>

\* MulticastOutput._close, line 207: if self.socket
CTest ==
    /\ pcC = "test"
    /\ pcC' = IF socket # "None" THEN "load" ELSE "flag"
    /\ UNCHANGED << raceRest, noReturn, opened, teardowns, mcastVars, pcW,
                    wsock, csock, wqueue, wrem, badSends >>

\* line 209: socket = self.socket
CLoad ==
    /\ pcC = "load"
    /\ csock' = socket
    /\ pcC' = "detach"
    /\ UNCHANGED << raceRest, noReturn, opened, teardowns, mcastVars, pcW,
                    wsock, wqueue, wrem, badSends >>

\* line 210: self.socket = None
CDetach ==
    /\ pcC = "detach"
    /\ socket' = "None"
    /\ pcC' = "leave"
    /\ UNCHANGED << raceRest, noReturn, opened, teardowns, sock, remainder,
                    sent, fed, pcW, wsock, csock, wqueue, wrem, badSends >>

\* lines 212-217: leave_group, an exception swallowed
CLeave ==
    /\ pcC = "leave"
    /\ \E leaveOk \in BOOLEAN : sock' = IF leaveOk THEN "left" ELSE sock
    /\ pcC' = "close"
    /\ UNCHANGED << raceRest, noReturn, opened, teardowns, socket, remainder,
                    sent, fed, pcW, wsock, csock, wqueue, wrem, badSends >>

\* line 218: socket.close()
CClose ==
    /\ pcC = "close"
    /\ sock' = "closed"
    /\ pcC' = "flag"
    /\ UNCHANGED << raceRest, noReturn, opened, teardowns, socket, remainder,
                    sent, fed, pcW, wsock, csock, wqueue, wrem, badSends >>

\* Output.close, line 28: self.opened = False
CFlag ==
    /\ pcC = "flag"
    /\ opened' = "False"
    /\ pcC' = "done"
    /\ Returned("close", "ok", << >>)
    /\ UNCHANGED << raceRest, teardowns, mcastVars, pcW, wsock, csock, wqueue,
                    wrem, badSends >>

RaceNext ==
    \/ WCheck
    \/ WLoad
    \/ WSend
    \/ WFinish
    \/ CCheck
    \/ CTest
    \/ CLoad
    \/ CDetach
    \/ CLeave
    \/ CClose
    \/ CFlag

SpecRace == RaceInit /\ [][RaceNext]_vars

\* C9: a write() racing with close() never calls sendto on a socket that
\* close() has begun to tear down (left the group or closed): it sends on the
\* intact socket or finds no socket
C9_NoSendDuringTeardown == badSends = 0

-----------------------------------------------------------------------------
(* Properties of the player sink's open, write and close, checked under Spec *)

ChannelOpenEvents == {"namedpipe_open", "http_open"}

\* C11: in async spawn mode the named pipe or the HTTP sink is opened only
\* after the liveness check succeeded: an open() that fails with premature
\* exit opens neither, and any channel open comes after the spawn and the
\* poll, which found the child running; on success the configured channel
\* (the named pipe, else the HTTP sink) was opened once
C11_ChannelAfterLiveness ==
    AsyncOpenReturned =>
        /\ result = "PrematureExit" =>
              /\ \A k \in 1..Len(events) : events[k] \notin ChannelOpenEvents
              /\ chan.namedpipe = "idle"
              /\ chan.http = "idle"
        /\ \A k \in 1..Len(events) :
              events[k] \in ChannelOpenEvents =>
                 /\ \E i \in 1..(k - 1) : events[i] = "Popen"
                 /\ \E j \in 1..(k - 1) : events[j] = "poll"
                 /\ proc = "running"
        /\ result = "ok" =>
              /\ Count(events, "namedpipe_open")
                    = (IF cfg.namedpipe THEN 1 ELSE 0)
              /\ Count(events, "http_open")
                    = (IF ~cfg.namedpipe /\ cfg.http THEN 1 ELSE 0)

\* an async open() with a named pipe configured that found the child gone
C11_Witness ==
    /\ AsyncOpenReturned
    /\ cfg.namedpipe
    /\ result = "PrematureExit"
    /\ chan.namedpipe = "idle"

\* the channel _write is to use: the named pipe, else the HTTP sink, else the
\* child's stdin pipe
ExpectedChannel ==
    IF cfg.namedpipe THEN "namedpipe"
    ELSE IF cfg.http THEN "http"
    ELSE "stdin"

CloseEventOf(c) ==
    IF c = "namedpipe" THEN "namedpipe_close"
    ELSE IF c = "http" THEN "http_close"
    ELSE "stdin_close"

\* a write() on an opened player sink is the step taken
OpenedPlayerWrite ==
    /\ kind = "player"
    /\ opened = "True"
    /\ lastOp' = "write"
    /\ calls' = calls + 1

\* the step hands the data to channel c, and to nothing else
HandsTo(c) ==
    /\ Len(handed') = Len(handed) + 1
    /\ SubSeq(handed', 1, Len(handed)) = handed
    /\ handed'[Len(handed')].to = c

-----------------------------------------------------------------------------
(* Properties of the multicast sink's close and of byte conservation *)

IsPrefix(s, t) == Len(s) <= Len(t) /\ s = SubSeq(t, 1, Len(s))

\* C13: close() of a multicast sink sends no datagram, nothing is sent once
\* the sink is closed (the remainder held at close is never transmitted), and
\* what is sent are only whole 188-byte packets, in stream order
C13_NoFlushOnClose ==
    [][ kind = "mcast" =>
           /\ (lastOp' = "close" /\ calls' = calls + 1) => sent' = sent
           /\ opened = "False" => (sent' = sent /\ remainder' = remainder)
           /\ \A i \in 1..Len(sent') : Len(sent'[i]) = PacketSize
           /\ IsPrefix(Cat(sent'), Stream') ]_vars

\* C13, the part about close(): close() sends nothing, and after it nothing is
\* sent and the remainder is left as it was; what is sent is a prefix of the
\* stream
C13_CloseSendsNothing ==
    [][ kind = "mcast" =>
           /\ (lastOp' = "close" /\ calls' = calls + 1) => sent' = sent
           /\ opened = "False" => (sent' = sent /\ remainder' = remainder)
           /\ IsPrefix(Cat(sent'), Stream') ]_vars

-----------------------------------------------------------------------------
(* Properties of the file sink's descriptor *)

\* the descriptor the sink works on once opened: the one opened from the
\* path when a path is given, else the one supplied
EffectiveDescriptor == IF cfg.filename THEN "file" ELSE cfg.fd

FeedStep(n) ==
    /\ kind = "mcast"
    /\ opened = "True"
    /\ lastOp' = "write"
    /\ calls' = calls + 1
    /\ fed' = fed + n

\* C15: when the packetizer is fed while it holds a non-empty remainder of
\* length r and the data is shorter than 188 - r, it emits no packet in that
\* call and the new remainder is the old remainder followed by the data
C15_ShortInputStep ==
    [][ \A n \in 0..(PacketSize - Len(remainder) - 1) :
           (remainder # << >> /\ FeedStep(n)) =>
               /\ sent' = sent
               /\ remainder' = remainder \o Data(fed, n) ]_vars

-----------------------------------------------------------------------------
(* Properties of the player sink's launch *)

LaunchEvents == {"Popen", "call"}

\* C16: with quiet set, the parent's devnull handles are open until open()
\* is called and closed once it has returned, whatever its outcome and in
\* either launch mode; the close is the last thing open() does, after the
\* launch of the child, and happens once
C16_QuietHandles ==
    (kind = "player" /\ cfg.quiet) =>
        /\ openCalls = 0 => devnull = "open"
        /\ openCalls >= 1 => devnull = "closed"
        /\ lastOp = "open" =>
              /\ Len(events) >= 2
              /\ events[1] \in LaunchEvents
              /\ events[1] = (IF cfg.call /\ cfg.filename THEN "call" ELSE "Popen")
              /\ events[Len(events)] = "devnull_close"
              /\ Count(events, "devnull_close") = 1

C16_Witness ==
    /\ kind = "player"
    /\ cfg.quiet
    /\ lastOp = "open"
    /\ result = "PrematureExit"
    /\ devnull = "closed"

BlockingCallMode == cfg.call /\ cfg.filename

\* C17: the child is launched in blocking call mode exactly when call is set
\* and a file path is configured; after an open() in that mode has returned
\* the sink is opened, and a close() that follows completes without raising
\* and leaves the sink unopened
C17_CallModeLifecycle ==
    kind = "player" =>
        /\ lastOp = "open" => (events[1] = "call" <=> BlockingCallMode)
        /\ lastOp = "open" => (events[1] = "Popen" <=> ~BlockingCallMode)
        /\ (BlockingCallMode /\ lastOp = "open" /\ result = "ok") =>
              opened = "True"
        /\ (BlockingCallMode /\ lastOp = "close" /\ wasOpened = "True") =>
              /\ result = "ok"
              /\ opened = "False"

\* C18: after every sequence of completed writes to a multicast sink, the
\* datagrams sent, of whatever length, followed by the remainder held are the
\* bytes written, in order: none is dropped, duplicated or reordered
C18_ByteConservation ==
    kind = "mcast" => Cat(sent) \o remainder = Stream

C18_Witness ==
    /\ kind = "mcast"
    /\ lastOp = "write"
    /\ result = "ok"
    /\ Len(sent) >= 2
    /\ remainder # << >>
    /\ \E i \in 1..Len(sent) : Len(sent[i]) < PacketSize
    /\ \E j \in 1..Len(sent) : Len(sent[j]) = PacketSize

-----------------------------------------------------------------------------
(* Properties of the lifecycle after close *)

\* C19: a sink that was opened and then closed by a close() that returned
\* stays unopened, and every write() to it fails with the not-opened error
\* and hands nothing to the descriptor, the child's input channel or the
\* socket
C19_WriteAfterClose ==
    [][ opened = "False" =>
           /\ opened' = "False"
           /\ (lastOp' = "write" /\ calls' = calls + 1) =>
                 /\ result' = "IOError"
                 /\ handed' = handed
                 /\ sent' = sent
                 /\ remainder' = remainder
                 /\ fed' = fed ]_vars

C19_Witness ==
    /\ lastOp = "write"
    /\ wasOpened = "False"
    /\ result = "IOError"
    /\ openCalls = 1
    /\ closes >= 1

=============================================================================
